---- MODULE Spec2Model ----
(***************************************************************************)
(* Model of update_and_send.py: the whole-run retry loop of main() around  *)
(* login, instrument enumeration, and the per-instrument fetch / upload    *)
(* loop.  The provider (baostock), the HTTP endpoint and the clock are     *)
(* external: every call to them is an action whose result is chosen with   *)
(* \E from the results the call can give (a status code, a row cursor, an  *)
(* HTTP response, or a raised exception).                                  *)
(***************************************************************************)
EXTENDS Integers, Sequences, FiniteSets, TLC

\* ---------------------------------------------------------------- constants
\* MAX_RETRY = 3 (line 14)
MAX_RETRY == 3

\* Bounds of the model: the longest instrument list and the longest history
\* the provider holds.
MaxInstruments == 2
MaxBars == 2

\* Instrument identifiers the provider may list (the "code" column).
Codes == {"AAA", "BBB", "CCC"}

\* HTTP status codes the endpoint may answer with, one or more per class.
Statuses == {100, 200, 304, 404, 500}

\* Marks "no HTTP status": a transport-level failure, or no request at all.
NoStatus == 0

\* What requests.post can give back: a response with a status, or a
\* transport-level failure (timeout, refused, DNS) raised by requests.
Resp(kind, status) == [kind |-> kind, status |-> status]

Responses ==
    {Resp("response", st) : st \in Statuses} \cup {Resp("conn_error", NoStatus)}

\* Provider status codes: "0" is success, anything else is a failure.
ErrorCodes == {"0", "10001001"}

\* What a bare call into the provider library can do besides returning
\* normally with its status code: raise.
LogoutOutcomes == ErrorCodes \cup {"raised"}

VARIABLES
    pc,          \* position of main()
    i,           \* loop variable of `for i in range(MAX_RETRY)`; attempts used up
    lg,          \* error_code of this attempt's bs.login() ("none" before it)
    stock_list,  \* the "code" column of df_stocks (lines 89-93)
    enum_err,    \* rs.error_code of the enumeration cursor after the read loop
    idx,         \* position of the iterrows() loop in df_stocks, 1-based
    df_history,  \* the frame fetch_history returned for stock_list[idx]
    trace,       \* this attempt's log of history queries and upload steps
    lo,          \* result of this attempt's last bs.logout() ("none" before it)
    results,     \* one tag per failed attempt, in order
    session,     \* a bs.login() returned "0" and no bs.logout() has since
    n_logout,    \* bs.logout() calls made in this attempt
    n_sleep,     \* time.sleep(5) calls made in the run
    n_post       \* requests.post calls made in the run, per watched instrument

vars == <<pc, i, lg, stock_list, enum_err, idx, df_history, trace, lo, results,
          session, n_logout, n_sleep, n_post>>

\* ------------------------------------------------------------ pure helpers
Range(s) == {s[k] : k \in 1..Len(s)}

RECURSIVE SeqsNoDup(_, _)
\* All duplicate-free sequences over S of length at most n: the provider
\* lists each instrument once.
SeqsNoDup(S, n) ==
    IF n = 0 THEN {<<>>}
    ELSE LET shorter == SeqsNoDup(S, n - 1)
         IN shorter \cup
            UNION {{Append(s, c) : c \in S \ Range(s)} :
                     s \in {t \in shorter : Len(t) = n - 1}}

\* A query result (baostock ResultData): the rows the provider would
\* deliver, whether error_code ever turns non-"0", and the number of
\* delivered rows after which it does (0: the query failed outright).
Cursor(rows, fails, failAfter) ==
    [rows |-> rows, fails |-> fails, failAfter |-> failAfter]

\* rs.error_code once n rows have been taken from the cursor.
ErrorCode(rs, n) ==
    IF rs.fails /\ n >= rs.failAfter THEN "10001001" ELSE "0"

\* rs.next() once n rows have been taken: is there another row.
HasNext(rs, n) == n < Len(rs.rows)

RECURSIVE ReadRows(_, _)
\* data = []; while (rs.error_code == "0") & rs.next(): data.append(row)
\* (lines 40-42 and 89-91): the rows read when the loop stops.
ReadRows(rs, data) ==
    IF (ErrorCode(rs, Len(data)) = "0") /\ HasNext(rs, Len(data))
    THEN ReadRows(rs, Append(data, rs.rows[Len(data) + 1]))
    ELSE data

\* response.raise_for_status(): raises HTTPError for 4xx and 5xx only.
RaiseForStatus(status) == status >= 400 /\ status < 600

\* requests.post(...) followed by raise_for_status() raises a
\* RequestException (lines 66-76).
PostRaises(resp) ==
    \/ resp.kind = "conn_error"
    \/ resp.kind = "response" /\ RaiseForStatus(resp.status)

\* df.empty (line 49)
Empty(df) == Len(df) = 0

\* The bars of a history of n trading days, by day number.
Bars(n) == [k \in 1..n |-> k]

\* The cursors a query over `rows` can return: one without an error, and
\* one for each point of the read at which the error code can turn up.
CursorsOver(rows) ==
    {Cursor(rows, FALSE, 0)} \cup {Cursor(rows, TRUE, f) : f \in 0..Len(rows)}

\* The cursors the enumeration query can return.
StockCursors ==
    UNION {CursorsOver(rows) : rows \in SeqsNoDup(Codes, MaxInstruments)}

\* The cursors the history query can return.
HistoryCursors == UNION {CursorsOver(Bars(n)) : n \in 0..MaxBars}

\* One event of `trace`.  op "fetch": a history query for `code`, res its
\* error_code or "raised", empty whether the frame built from it is empty.
\* op "post": one HTTP POST for `code`, res "response" (with its status) or
\* "conn_error".  op "skip": the upload step returned without a request.
Ev(op, code, res, status, empty) ==
    [op |-> op, code |-> code, res |-> res, status |-> status, empty |-> empty]

\* The instruments whose POSTs are counted over the whole run, where the
\* run is watched.
Watched == {"AAA"}

\* n_post after n more requests.post calls for instrument c.
PostsFor(c, n) ==
    [w \in DOMAIN n_post |-> IF w = c THEN n_post[w] + n ELSE n_post[w]]

\* Mutant of TsCode: the rows are walked from the end of the frame.
TsCode_Reversed == stock_list[Len(stock_list) - idx + 1]

\* ts_code = row["code"] (line 104): the instrument of the current row.
TsCode == stock_list[idx]

\* ------------------------------------------------------------------- Init
Start ==
    /\ pc = "loop"
    /\ i = 0
    /\ lg = "none"
    /\ stock_list = <<>>
    /\ enum_err = "0"
    /\ idx = 0
    /\ df_history = <<>>
    /\ trace = <<>>
    /\ lo = "none"
    /\ results = <<>>
    /\ session = FALSE
    /\ n_logout = 0
    /\ n_sleep = 0

\* The state at the call of main(), with no instrument watched.
Init == Start /\ n_post = [w \in {} |-> 0]

\* The same state, with the POSTs of the Watched instruments counted.
InitWatched == Start /\ n_post = [w \in Watched |-> 0]

\* ---------------------------------------------------------------- actions
\* Mutant of ForNext: the range is one too long (range(MAX_RETRY + 1)).
ForNext_OneTooMany ==
    /\ pc = "loop"
    /\ i <= MAX_RETRY
    /\ pc' = "login"
    /\ lg' = "none"
    /\ enum_err' = "0"
    /\ trace' = <<>>
    /\ lo' = "none"
    /\ n_logout' = 0
    /\ UNCHANGED <<i, stock_list, idx, df_history, results>>
    /\ UNCHANGED <<session, n_sleep, n_post>>

\* `for i in range(MAX_RETRY):` gives the next attempt (line 82).  The
\* locals of main keep their values; the logs of the attempt start empty.
ForNext ==
    /\ pc = "loop"
    /\ i < MAX_RETRY
    /\ pc' = "login"
    /\ lg' = "none"
    /\ enum_err' = "0"
    /\ trace' = <<>>
    /\ lo' = "none"
    /\ n_logout' = 0
    /\ UNCHANGED <<i, stock_list, idx, df_history, results>>
    /\ UNCHANGED <<session, n_sleep, n_post>>

\* The range is used up: the failure report (line 119), then main returns.
ForExhausted ==
    /\ pc = "loop"
    /\ i >= MAX_RETRY
    /\ pc' = "Failed"
    /\ UNCHANGED <<i, lg, stock_list, enum_err, idx, df_history, trace, lo, results>>
    /\ UNCHANGED <<session, n_logout, n_sleep, n_post>>

\* Mutant of login_baostock: a rejected login ends the run at once in the
\* failure report instead of raising into the retry handler.
login_baostock_Terminal(code) ==
    /\ pc = "login"
    /\ lg' = code
    /\ IF code # "0"
       THEN /\ pc' = "Failed"
            /\ results' = Append(results, "exception")
       ELSE /\ pc' = "query"
            /\ UNCHANGED results
    /\ session' = IF code = "0" THEN TRUE ELSE session
    /\ UNCHANGED <<i, stock_list, enum_err, idx, df_history, trace, lo>>
    /\ UNCHANGED <<n_logout, n_sleep, n_post>>

\* lg = login_baostock() (lines 84, 20-25): a status other than "0" raises
\* RuntimeError, caught at line 114.
login_baostock(code) ==
    /\ pc = "login"
    /\ lg' = code
    /\ IF code # "0"
       THEN /\ pc' = "except"
            /\ results' = Append(results, "exception")
       ELSE /\ pc' = "query"
            /\ UNCHANGED results
    /\ session' = IF code = "0" THEN TRUE ELSE session
    /\ UNCHANGED <<i, stock_list, enum_err, idx, df_history, trace, lo>>
    /\ UNCHANGED <<n_logout, n_sleep, n_post>>

Login == \E code \in ErrorCodes : login_baostock(code)

\* rs = bs.query_all_stock() raises (line 87): caught at line 114.
QueryAllStockRaises ==
    /\ pc = "query"
    /\ pc' = "except"
    /\ results' = Append(results, "exception")
    /\ UNCHANGED <<i, lg, stock_list, enum_err, idx, df_history, trace, lo>>
    /\ UNCHANGED <<session, n_logout, n_sleep, n_post>>

\* Mutant of query_all_stock: the emptiness test of lines 95-99 is missing,
\* so an empty frame runs the iterrows() loop zero times and reaches line 110.
query_all_stock_NoEmptyTest(rs) ==
    /\ pc = "query"
    /\ LET data == ReadRows(rs, <<>>)
       IN /\ stock_list' = data
          /\ enum_err' = ErrorCode(rs, Len(data))
          /\ pc' = IF Len(data) = 0 THEN "logout" ELSE "fetch"
          /\ idx' = 1
    /\ UNCHANGED <<i, lg, df_history, trace, lo, results>>
    /\ UNCHANGED <<session, n_logout, n_sleep, n_post>>

\* Lines 87-103: the query, the read loop, the frame, the emptiness test and
\* the start of the iterrows() loop.
query_all_stock(rs) ==
    /\ pc = "query"
    /\ LET data == ReadRows(rs, <<>>)
       IN /\ stock_list' = data
          /\ enum_err' = ErrorCode(rs, Len(data))
          /\ IF Len(data) = 0
             THEN /\ pc' = "empty_logout"
                  /\ UNCHANGED idx
                  /\ results' = Append(results, "empty")
             ELSE /\ pc' = "fetch"
                  /\ idx' = 1
                  /\ UNCHANGED results
    /\ UNCHANGED <<i, lg, df_history, trace, lo>>
    /\ UNCHANGED <<session, n_logout, n_sleep, n_post>>

QueryAllStock == \E rs \in StockCursors : query_all_stock(rs)

\* bs.logout() of the empty-enumeration path (line 97).  It is inside the
\* try: an exception it raises is caught at line 114.
EmptyLogout ==
    /\ pc = "empty_logout"
    /\ \E out \in LogoutOutcomes :
         /\ lo' = out
         /\ session' = IF out = "0" THEN FALSE ELSE session
         /\ pc' = IF out = "raised" THEN "except" ELSE "empty_sleep"
    /\ n_logout' = n_logout + 1
    /\ UNCHANGED <<i, lg, stock_list, enum_err, idx, df_history, trace, results>>
    /\ UNCHANGED <<n_sleep, n_post>>

\* time.sleep(5); continue (lines 98-99).
EmptySleep ==
    /\ pc = "empty_sleep"
    /\ pc' = "loop"
    /\ i' = i + 1
    /\ n_sleep' = n_sleep + 1
    /\ UNCHANGED <<lg, stock_list, enum_err, idx, df_history, trace, lo, results>>
    /\ UNCHANGED <<session, n_logout, n_post>>

\* bs.query_history_k_data_plus raises inside fetch_history (line 32):
\* the exception leaves fetch_history and is caught at line 114.
FetchHistoryRaises ==
    /\ pc = "fetch"
    /\ trace' = Append(trace, Ev("fetch", TsCode, "raised", NoStatus, TRUE))
    /\ pc' = "except"
    /\ results' = Append(results, "exception")
    /\ UNCHANGED <<i, lg, stock_list, enum_err, idx, df_history, lo>>
    /\ UNCHANGED <<session, n_logout, n_sleep, n_post>>

\* df_history = fetch_history(ts_code) (lines 104-106, 28-45): the frame
\* holds the rows read before the loop stopped, whatever stopped it.
fetch_history(rs) ==
    /\ pc = "fetch"
    /\ LET data == ReadRows(rs, <<>>)
       IN /\ df_history' = data
          /\ trace' = Append(trace, Ev("fetch", TsCode,
                                       ErrorCode(rs, Len(data)),
                                       NoStatus, Empty(data)))
    /\ pc' = "send"
    /\ UNCHANGED <<i, lg, stock_list, enum_err, idx, lo, results>>
    /\ UNCHANGED <<session, n_logout, n_sleep, n_post>>

FetchHistory == \E rs \in HistoryCursors : fetch_history(rs)

\* The iterrows() loop moves to the next row, or ends (lines 103, 110).
NextRow ==
    /\ idx' = idx + 1
    /\ pc' = IF idx < Len(stock_list) THEN "fetch" ELSE "logout"

\* Mutant of send_data_to_worker: the except clause of lines 74-76 logs the
\* RequestException and does not raise it again.
send_data_to_worker_Swallows(resp) ==
    /\ pc = "send"
    /\ IF Empty(df_history)
       THEN trace' = Append(trace, Ev("skip", TsCode, "skipped", NoStatus, TRUE))
       ELSE trace' = Append(trace, Ev("post", TsCode, resp.kind, resp.status, FALSE))
    /\ idx' = idx + 1
    /\ pc' = IF idx < Len(stock_list) THEN "fetch" ELSE "logout"
    /\ n_post' = IF Empty(df_history) THEN n_post ELSE PostsFor(TsCode, 1)
    /\ UNCHANGED <<i, lg, stock_list, enum_err, df_history, lo, results>>
    /\ UNCHANGED <<session, n_logout, n_sleep>>

\* Mutant of send_data_to_worker: the df.empty test of lines 49-51 is
\* missing, so an empty frame is POSTed like any other.
send_data_to_worker_NoEmptyTest(resp) ==
    /\ pc = "send"
    /\ trace' = Append(trace, Ev("post", TsCode, resp.kind, resp.status, FALSE))
    /\ IF PostRaises(resp)
       THEN /\ pc' = "except"
            /\ results' = Append(results, "exception")
            /\ UNCHANGED idx
       ELSE /\ NextRow
            /\ UNCHANGED results
    /\ n_post' = PostsFor(TsCode, 1)
    /\ UNCHANGED <<i, lg, stock_list, enum_err, df_history, lo>>
    /\ UNCHANGED <<session, n_logout, n_sleep>>

\* Mutant of send_data_to_worker: a POST that raises is tried once more
\* inside the function before the exception is raised again.
send_data_to_worker_Retries(resp) ==
    /\ pc = "send"
    /\ IF Empty(df_history)
       THEN /\ trace' = Append(trace, Ev("skip", TsCode, "skipped", NoStatus, TRUE))
            /\ NextRow
            /\ UNCHANGED results
       ELSE IF PostRaises(resp)
            THEN /\ trace' = trace \o
                       <<Ev("post", TsCode, resp.kind, resp.status, FALSE),
                         Ev("post", TsCode, resp.kind, resp.status, FALSE)>>
                 /\ pc' = "except"
                 /\ results' = Append(results, "exception")
                 /\ UNCHANGED idx
            ELSE /\ trace' = Append(trace, Ev("post", TsCode, resp.kind,
                                              resp.status, FALSE))
                 /\ NextRow
                 /\ UNCHANGED results
    /\ n_post' = IF Empty(df_history) THEN n_post
                  ELSE PostsFor(TsCode, IF PostRaises(resp) THEN 2 ELSE 1)
    /\ UNCHANGED <<i, lg, stock_list, enum_err, df_history, lo>>
    /\ UNCHANGED <<session, n_logout, n_sleep>>

\* Mutant of send_data_to_worker: an instrument that was POSTed earlier in
\* the run is not POSTed again.
send_data_to_worker_SkipsUploaded(resp) ==
    /\ pc = "send"
    /\ IF Empty(df_history) \/ (TsCode \in DOMAIN n_post /\ n_post[TsCode] > 0)
       THEN /\ trace' = Append(trace, Ev("skip", TsCode, "skipped", NoStatus,
                                         Empty(df_history)))
            /\ NextRow
            /\ UNCHANGED <<results, n_post>>
       ELSE /\ trace' = Append(trace, Ev("post", TsCode, resp.kind, resp.status, FALSE))
            /\ n_post' = PostsFor(TsCode, 1)
            /\ IF PostRaises(resp)
               THEN /\ pc' = "except"
                    /\ results' = Append(results, "exception")
                    /\ UNCHANGED idx
               ELSE /\ NextRow
                    /\ UNCHANGED results
    /\ UNCHANGED <<i, lg, stock_list, enum_err, df_history, lo>>
    /\ UNCHANGED <<session, n_logout, n_sleep>>

\* send_data_to_worker(ts_code, df_history) (lines 108, 47-76): no request
\* for an empty frame; otherwise one POST, and a RequestException from it
\* is raised again to main, where line 114 catches it.
send_data_to_worker(resp) ==
    /\ pc = "send"
    /\ IF Empty(df_history)
       THEN /\ trace' = Append(trace, Ev("skip", TsCode, "skipped", NoStatus, TRUE))
            /\ NextRow
            /\ UNCHANGED <<results, n_post>>
       ELSE /\ trace' = Append(trace, Ev("post", TsCode, resp.kind, resp.status, FALSE))
            /\ n_post' = PostsFor(TsCode, 1)
            /\ IF PostRaises(resp)
               THEN /\ pc' = "except"
                    /\ results' = Append(results, "exception")
                    /\ UNCHANGED idx
               ELSE /\ NextRow
                    /\ UNCHANGED results
    /\ UNCHANGED <<i, lg, stock_list, enum_err, df_history, lo>>
    /\ UNCHANGED <<session, n_logout, n_sleep>>

SendDataToWorker == \E resp \in Responses : send_data_to_worker(resp)

\* bs.logout(); return (lines 110-112).  The call is inside the try: an
\* exception it raises is caught at line 114.
Logout ==
    /\ pc = "logout"
    /\ \E out \in LogoutOutcomes :
         /\ lo' = out
         /\ session' = IF out = "0" THEN FALSE ELSE session
         /\ IF out = "raised"
            THEN /\ pc' = "except"
                 /\ results' = Append(results, "exception")
            ELSE /\ pc' = "Done"
                 /\ UNCHANGED results
    /\ n_logout' = n_logout + 1
    /\ UNCHANGED <<i, lg, stock_list, enum_err, idx, df_history, trace>>
    /\ UNCHANGED <<n_sleep, n_post>>

\* Mutant of ExceptLogout: the handler's bs.logout() is followed by a second
\* one, as a `finally: bs.logout()` clause would add.
ExceptLogout_Twice ==
    /\ pc = "except"
    /\ \E out \in LogoutOutcomes :
         /\ lo' = out
         /\ session' = IF out = "0" THEN FALSE ELSE session
         /\ pc' = IF out = "raised" THEN "Aborted" ELSE "except_sleep"
    /\ n_logout' = n_logout + 2
    /\ UNCHANGED <<i, lg, stock_list, enum_err, idx, df_history, trace, results>>
    /\ UNCHANGED <<n_sleep, n_post>>

\* except Exception: bs.logout() (lines 114-116).  The returned status is
\* dropped; an exception raised here is in no try and leaves main().
ExceptLogout ==
    /\ pc = "except"
    /\ \E out \in LogoutOutcomes :
         /\ lo' = out
         /\ session' = IF out = "0" THEN FALSE ELSE session
         /\ pc' = IF out = "raised" THEN "Aborted" ELSE "except_sleep"
    /\ n_logout' = n_logout + 1
    /\ UNCHANGED <<i, lg, stock_list, enum_err, idx, df_history, trace, results>>
    /\ UNCHANGED <<n_sleep, n_post>>

\* Mutant of ExceptSleep: the handler has no time.sleep(5).
ExceptSleep_NoSleep ==
    /\ pc = "except_sleep"
    /\ pc' = "loop"
    /\ i' = i + 1
    /\ UNCHANGED <<lg, stock_list, enum_err, idx, df_history, trace, lo, results>>
    /\ UNCHANGED <<session, n_logout, n_sleep, n_post>>

\* time.sleep(5), then the next iteration of the for (line 117).
ExceptSleep ==
    /\ pc = "except_sleep"
    /\ pc' = "loop"
    /\ i' = i + 1
    /\ n_sleep' = n_sleep + 1
    /\ UNCHANGED <<lg, stock_list, enum_err, idx, df_history, trace, lo, results>>
    /\ UNCHANGED <<session, n_logout, n_post>>

Next ==
    \/ ForNext
    \/ ForExhausted
    \/ Login
    \/ QueryAllStockRaises
    \/ QueryAllStock
    \/ EmptyLogout
    \/ EmptySleep
    \/ FetchHistoryRaises
    \/ FetchHistory
    \/ SendDataToWorker
    \/ Logout
    \/ ExceptLogout
    \/ ExceptSleep

Spec == Init /\ [][Next]_vars

\* The same run with the POSTs of the Watched instruments counted.
SpecWatched == InitWatched /\ [][Next]_vars

\* The run in which no bs.logout() fails: each of the three calls returns
\* with error_code "0".
LogoutReturnsOk == lo' = "0"

NextLogoutOk ==
    \/ ForNext
    \/ ForExhausted
    \/ Login
    \/ QueryAllStockRaises
    \/ QueryAllStock
    \/ EmptyLogout /\ LogoutReturnsOk
    \/ EmptySleep
    \/ FetchHistoryRaises
    \/ FetchHistory
    \/ SendDataToWorker
    \/ Logout /\ LogoutReturnsOk
    \/ ExceptLogout /\ LogoutReturnsOk
    \/ ExceptSleep

SpecLogoutOk == Init /\ [][NextLogoutOk]_vars

\* ------------------------------------------------- views used by the claims
\* Positions inside the external calls of an attempt: at each of them the
\* next step of main is a login, an enumeration, a fetch or an upload.
WorkPcs == {"login", "query", "fetch", "send"}

\* Positions of main once the attempt in progress has failed.
CleanupPcs == {"empty_logout", "empty_sleep", "except", "except_sleep"}

\* Whole-run attempts started so far: iterations of the for loop entered.
Started == IF pc \in {"loop", "Failed"} THEN i ELSE i + 1

\* Attempts that have failed so far, by exception or by empty enumeration.
FailedAttempts == Len(results)

\* The calls of this attempt's log, by kind.
IsFetch(e) == e.op = "fetch"
IsPost(e) == e.op = "post"
IsUpload(e) == e.op \in {"post", "skip"}

\* ---------------------------------------------------------------- claims
\* C1: main() starts at most MAX_RETRY whole-run attempts; every failed
\* attempt, by exception or by empty enumeration, uses one up; once
\* MAX_RETRY attempts have failed main is never again at a login, an
\* enumeration, a fetch or an upload, never returns Done, and the only
\* return left to it is the failure report, which is given after exactly
\* MAX_RETRY failed attempts.
C1_NoWorkAfterBudget ==
    (FailedAttempts = MAX_RETRY) =>
        /\ UNCHANGED <<trace, stock_list, lg, enum_err, df_history, idx, results>>
        /\ pc' \in CleanupPcs \cup {"loop", "Failed", "Aborted"}

UploadFailed(e) ==
    e.op = "post" /\ (e.res = "conn_error" \/ RaiseForStatus(e.status))

LastEvent == trace[Len(trace)]

\* C2: once the upload of an instrument has failed, that POST is the last
\* call of the attempt's log for good (no fetch and no upload of a later
\* instrument); the log changes again only when a new attempt starts, at
\* login with an empty log, and the first call of any attempt's log is the
\* fetch of the first instrument of the list that attempt enumerated after
\* a successful login.
C2_StepAfterUploadFailure ==
    /\ (trace # <<>> /\ UploadFailed(LastEvent) /\ trace' # trace) =>
            /\ pc = "loop"
            /\ pc' = "login"
            /\ trace' = <<>>
    /\ (pc' = "fetch" /\ pc # "fetch") => pc \in {"query", "send"}
    /\ (pc = "login" /\ pc' # "except") => pc' = "query" /\ lg' = "0"
    /\ (pc = "query" /\ pc' = "fetch") =>
            /\ idx' = 1 /\ lg = "0" /\ trace = <<>>
            /\ \E rs \in StockCursors : stock_list' = ReadRows(rs, <<>>)
    /\ (trace = <<>> /\ trace' # <<>>) =>
            /\ pc = "fetch"
            /\ idx = 1
            /\ trace' = <<Ev("fetch", stock_list[1], trace'[1].res, NoStatus,
                             trace'[1].empty)>>

C2_UploadFailureAborts ==
    /\ [](\A k \in 1..Len(trace) :
             UploadFailed(trace[k]) =>
                /\ k = Len(trace)
                /\ pc \in {"except", "except_sleep", "loop", "Failed", "Aborted"})
    /\ [](pc \in {"login", "query"} => trace = <<>>)
    /\ [][C2_StepAfterUploadFailure]_vars

\* C2 witness: the upload of the first of two instruments failed and the
\* attempt is in its handler with nothing logged for the second.
C2_Witness ==
    /\ pc = "except_sleep"
    /\ Len(stock_list) = 2
    /\ Len(trace) = 2
    /\ UploadFailed(trace[2])
    /\ trace[2].code = stock_list[1]

\* The history query of e reported no error and raised nothing.
FetchOk(e) == e.op = "fetch" /\ e.res = "0"

\* The history query of e reported a non-"0" error code.
FetchErrorCode(e) == e.op = "fetch" /\ e.res \notin {"0", "raised"}

\* e is a POST answered with a success-class status.
PostOk(e) == e.op = "post" /\ e.res = "response" /\ e.status \in 200..299

\* C3: when the run ends in Done, the final attempt's log holds, for every
\* instrument of the enumerated list, a history query that reported no
\* error and, unless that history was empty, a POST answered with a
\* success-class status.
C3_DoneMeansAllUploaded ==
    pc = "Done" =>
        \A k \in 1..Len(stock_list) :
            \E j \in 1..Len(trace) :
                /\ trace[j].code = stock_list[k]
                /\ FetchOk(trace[j])
                /\ \/ trace[j].empty
                   \/ \E u \in 1..Len(trace) :
                         trace[u].code = stock_list[k] /\ PostOk(trace[u])

\* C4: a history query that reports a non-"0" error code is the last call
\* of its attempt and puts main in the except handler: the upload step is
\* never run on the frame built from it.
C4_FetchErrorAborts ==
    \A j \in 1..Len(trace) :
        FetchErrorCode(trace[j]) =>
            /\ j = Len(trace)
            /\ pc \in {"except", "except_sleep", "loop", "Failed", "Aborted"}

\* The attempt in progress has failed by empty enumeration.
EmptyAttempt == FailedAttempts = i + 1 /\ results[i + 1] = "empty"

\* C5: an attempt whose enumeration is empty logs no fetch and no upload and
\* never reaches Done; it calls logout, then sleeps, then the for loop moves
\* on with one more attempt used up, to a new login while i < MAX_RETRY and
\* to the failure report otherwise.  With enumerations [] then ["CCC"], the
\* run that ends in Done has processed CCC exactly once, in attempt 2.
C5_EmptyStep ==
    /\ pc = "empty_logout" =>
            lo' # "none" /\ pc' \in {"empty_sleep", "except"} /\ i' = i
    /\ pc = "empty_sleep" => pc' = "loop" /\ i' = i + 1
    /\ pc = "loop" =>
            \/ i < MAX_RETRY /\ pc' = "login" /\ i' = i
            \/ i = MAX_RETRY /\ pc' = "Failed"

C6_EmptyStep ==
    (pc = "send" /\ Empty(df_history)) =>
        /\ trace' = Append(trace, Ev("skip", stock_list[idx], "skipped",
                                     NoStatus, TRUE))
        /\ results' = results
        /\ idx' = idx + 1
        /\ pc' = IF idx < Len(stock_list) THEN "fetch" ELSE "logout"

C6_EmptyHistoryNoUpload ==
    /\ [](\A j \in 1..Len(trace) :
            /\ IsPost(trace[j]) =>
                 /\ j > 1
                 /\ IsFetch(trace[j - 1])
                 /\ trace[j - 1].code = trace[j].code
                 /\ ~trace[j - 1].empty
            /\ (IsFetch(trace[j]) /\ trace[j].empty /\ j < Len(trace)) =>
                 trace[j + 1].op = "skip")
    /\ [](pc = "send" => (Empty(df_history) <=> LastEvent.empty))
    /\ [](pc = "Done" /\ stock_list = <<"AAA", "BBB">>
            /\ Len(trace) = 4 /\ ~trace[1].empty /\ trace[3].empty =>
              {j \in 1..Len(trace) : IsPost(trace[j])} = {2}
              /\ trace[2].code = "AAA")
    /\ [][C6_EmptyStep]_vars

\* C6 witness: AAA had bars and was POSTed, BBB had none and was skipped,
\* and the run ended in Done.
C6_Witness ==
    /\ pc = "Done"
    /\ stock_list = <<"AAA", "BBB">>
    /\ Len(trace) = 4
    /\ PostOk(trace[2]) /\ trace[2].code = "AAA"
    /\ trace[4].op = "skip" /\ trace[4].code = "BBB"

\* Every instrument of the enumerated, non-empty list has been fetched and
\* uploaded in this attempt and nothing went wrong: each history query
\* reported "0", each upload step skipped an empty frame or got a
\* success-class response.
CleanPass ==
    /\ stock_list # <<>>
    /\ Len(trace) = 2 * Len(stock_list)
    /\ \A k \in 1..Len(stock_list) :
          /\ FetchOk(trace[2 * k - 1]) /\ trace[2 * k - 1].code = stock_list[k]
          /\ trace[2 * k].code = stock_list[k]
          /\ trace[2 * k].op = "skip" \/ PostOk(trace[2 * k])

\* C7: an attempt in which every instrument of the list was fetched and
\* uploaded without error does not fail: main goes from there to the
\* session close and to Done, never into the retry handler.
C7_CleanPassEndsDone == CleanPass => pc \in {"logout", "Done"}

\* The attempt in progress has failed (by exception or empty enumeration).
AttemptFailed == FailedAttempts = Started /\ pc \notin {"loop", "Failed"}

\* C8: when an attempt has failed with an exception after its login, during
\* enumeration or the per-instrument loop, and its logout itself fails (a
\* non-"0" status or an exception), main carries on: it is in the handler
\* or at the backoff wait, never left by the exception of the logout.
C8_CloseFailureIgnored ==
    (/\ AttemptFailed
     /\ results[Started] = "exception"
     /\ lg = "0"
     /\ lo \notin {"none", "0"}) =>
        pc \in {"except", "except_sleep"}

\* This attempt's login was rejected.
LoginRejected == lg \notin {"none", "0"}

\* C9: a rejected login fails the current attempt and nothing else: the
\* attempt enumerates, fetches and uploads nothing, main goes to the handler,
\* after the handler's sleep to the for loop with one more attempt used up,
\* and from there to a new login while i < MAX_RETRY; the failure report is
\* reached only with i = MAX_RETRY.
C9_RejectedStep ==
    /\ (pc = "login" /\ lg' # "0") =>
            /\ pc' = "except"
            /\ i' = i
            /\ results' = Append(results, "exception")
    /\ LoginRejected => UNCHANGED <<stock_list, enum_err, df_history, idx, trace>>
    /\ (LoginRejected /\ pc = "except") => pc' \in {"except_sleep", "Aborted"}
    /\ (LoginRejected /\ pc = "except_sleep") => pc' = "loop" /\ i' = i + 1
    /\ (LoginRejected /\ pc = "loop") =>
            \/ i < MAX_RETRY /\ pc' = "login" /\ i' = i
            \/ i = MAX_RETRY /\ pc' = "Failed"

Pos(c) == CHOOSE k \in 1..Len(stock_list) : stock_list[k] = c

\* C10: the attempt's log is fetch, upload, fetch, upload, ... over the
\* instruments of the enumerated list in list order: call 2k-1 is the fetch
\* of instrument k and call 2k its upload step, every upload step before
\* the last call returned normally, and the POSTs of the log are for
\* instruments at increasing positions of the list.
C10_ListOrder ==
    /\ Len(trace) <= 2 * Len(stock_list)
    /\ \A j \in 1..Len(trace) :
          /\ trace[j].code = stock_list[(j + 1) \div 2]
          /\ IF j % 2 = 1 THEN IsFetch(trace[j]) ELSE IsUpload(trace[j])
          /\ (j < Len(trace) /\ IsUpload(trace[j])) => ~UploadFailed(trace[j])
          /\ (j < Len(trace) /\ IsFetch(trace[j])) => trace[j].res # "raised"
    /\ \A a, b \in 1..Len(trace) :
          (a < b /\ IsPost(trace[a]) /\ IsPost(trace[b])) =>
              Pos(trace[a].code) < Pos(trace[b].code)
    /\ (pc = "fetch" => idx = Len(trace) \div 2 + 1 /\ Len(trace) % 2 = 0)
    /\ (pc = "send" => idx = (Len(trace) + 1) \div 2 /\ Len(trace) % 2 = 1)

\* C10 witness: two instruments, both POSTed, in list order.
C10_Witness ==
    /\ Len(stock_list) = 2
    /\ Len(trace) = 4
    /\ IsPost(trace[2]) /\ IsPost(trace[4])

\* Positions of main once an exception has put it in the except handler,
\* or later in the run.
AbortedPcs == {"except", "except_sleep", "loop", "Failed", "Aborted"}

\* C11: a POST succeeds only on a success-class response: a POST answered
\* with any other status (1xx, 3xx, 4xx, 5xx) or by a transport failure is
\* raised to main, so it is the last call of its attempt and main is in the
\* except handler or beyond it.
C11_OnlySuccessClassSucceeds ==
    \A j \in 1..Len(trace) :
        (IsPost(trace[j]) /\ ~PostOk(trace[j])) =>
            j = Len(trace) /\ pc \in AbortedPcs

\* C12: an enumeration whose cursor reports a non-"0" error code fails the
\* attempt: nothing is fetched or uploaded from the rows read before the
\* error, and main is on the failure path (close, backoff, retry), never
\* at Done.
C12_EnumerationErrorFails ==
    enum_err # "0" =>
        /\ trace = <<>>
        /\ pc \in CleanupPcs \cup {"loop", "Failed", "Aborted"}

\* The POSTs of this attempt's log for instrument c.
PostsOf(c) == {j \in 1..Len(trace) : IsPost(trace[j]) /\ trace[j].code = c}

\* C13: one run of the upload step adds exactly one call to the log, a skip
\* or a single POST, whatever the response; a POST of the log always follows
\* the fetch of its instrument directly, never another POST; and no
\* instrument has more than one POST in an attempt's log.
C13_UploadStep ==
    pc = "send" =>
        /\ Len(trace') = Len(trace) + 1
        /\ SubSeq(trace', 1, Len(trace)) = trace
        /\ IsUpload(trace'[Len(trace')])

C13_NoInternalRetry ==
    /\ [](\A j \in 1..Len(trace) :
             IsPost(trace[j]) => j > 1 /\ IsFetch(trace[j - 1]))
    /\ [](\A c \in Codes : Cardinality(PostsOf(c)) <= 1)
    /\ [][C13_UploadStep]_vars

\* C13 witness: the POST of the second instrument failed, and the log holds
\* that one POST for it and one for the first instrument.
C13_Witness ==
    /\ pc = "except"
    /\ Len(trace) = 4
    /\ PostOk(trace[2])
    /\ UploadFailed(trace[4])
    /\ Cardinality(PostsOf(trace[4].code)) = 1

\* C15: no progress is carried from one attempt to the next.  Whatever the
\* number of POSTs an instrument has had in the run, the upload step of a
\* non-empty history POSTs it once more, and the step of an empty history
\* POSTs nothing; an attempt's POSTs of an instrument come on top of those
\* of the earlier attempts; and an instrument is POSTed at most once per
\* attempt started, so at most MAX_RETRY times in a run.
C15_UploadStep ==
    pc = "send" =>
        \A w \in DOMAIN n_post :
            n_post'[w] = n_post[w] +
                (IF w = TsCode /\ ~Empty(df_history) THEN 1 ELSE 0)

C15_NoProgressCarried ==
    /\ [][C15_UploadStep]_vars
    /\ [][pc # "send" => n_post' = n_post]_vars
    /\ [](\A w \in DOMAIN n_post :
             /\ n_post[w] >= Cardinality(PostsOf(w))
             /\ n_post[w] <= Started
             /\ n_post[w] <= MAX_RETRY)

\* C15 witness: the second attempt has POSTed again, successfully, the
\* instrument that the first, failed attempt had POSTed, and has gone on to
\* the next instrument.
C15_Witness ==
    /\ Started = 2
    /\ results = <<"exception">>
    /\ Len(trace) >= 3
    /\ PostOk(trace[2])
    /\ trace[2].code \in DOMAIN n_post
    /\ n_post[trace[2].code] = 2

\* C15 witness of the bound: an instrument has been POSTed MAX_RETRY times.
C15_WitnessMaxRetry == \E w \in DOMAIN n_post : n_post[w] = MAX_RETRY

\* The attempt that was started last has run its course: main is at its
\* backoff wait, between attempts, or has returned.
AttemptOver ==
    \/ pc \in {"empty_sleep", "except_sleep", "Done"}
    \/ pc \in {"loop", "Failed"} /\ i > 0

\* C16, as stated: with no logout failing, no session is open at a login,
\* an attempt whose login succeeded has made exactly one logout by the time
\* it is over, with no session left open, and an attempt whose login was
\* rejected makes no logout.
C16_NoLogoutWithoutLogin ==
    /\ pc = "login" => ~session
    /\ (AttemptOver /\ lg = "0") => n_logout = 1 /\ ~session
    /\ LoginRejected => n_logout = 0

\* C16, amended: with no logout failing, every attempt makes exactly one
\* logout, whether its login succeeded or was rejected.  No session is open
\* and no logout has been made at a login; through the enumeration, the
\* fetches and the uploads the one session of the successful login is open
\* and no logout has been made; in the handler a session is open exactly
\* when the login had succeeded; and once the attempt is over one logout has
\* been made and no session is open, before the next login and before main
\* returns.
C16_LoginLogoutPaired ==
    /\ pc = "login" => ~session /\ n_logout = 0
    /\ pc \in {"query", "fetch", "send", "logout", "empty_logout"} =>
           session /\ lg = "0" /\ n_logout = 0
    /\ pc = "except" => (session <=> lg = "0") /\ n_logout = 0
    /\ AttemptOver => n_logout = 1 /\ ~session /\ lo = "0"

\* C16 witness: the login was rejected and the handler has made its logout.
C16_Witness ==
    /\ pc = "except_sleep"
    /\ LoginRejected
    /\ n_logout = 1
    /\ ~session

C17_WaitStep ==
    /\ n_sleep' # n_sleep =>
           /\ n_sleep' = n_sleep + 1
           /\ pc \in {"empty_sleep", "except_sleep"}
           /\ n_logout >= 1
           /\ lo # "raised"
           /\ FailedAttempts = i + 1
           /\ pc' = "loop"
    /\ pc \in {"empty_sleep", "except_sleep"} => n_sleep' = n_sleep + 1

C18_TwoOutcomes == ~(ENABLED Next) => pc \in {"Done", "Failed"}

\* main() is one sequential thread: while it has a next step it takes it.
FairSpec == Spec /\ WF_vars(Next)

\* C18, the part that holds: main() always ends, in Done, in the failure
\* report, or with the exception of the handler's bs.logout().
C18_Terminates == <>(pc \in {"Done", "Failed", "Aborted"})

====
